---- MODULE Spec2Model ----
(***************************************************************************)
(* The Analysis Response Normalizer (parseGeminiResponse) of the Gemini    *)
(* service: segmentation of the model's free-text response, the nine       *)
(* section extractors, the derivation of the risk level, the completion    *)
(* score and the termination clauses, and the catch-all default record.    *)
(*                                                                         *)
(* A JavaScript string is modelled as a sequence of one-character strings, *)
(* so that every regular expression and string method of the source is     *)
(* computed character by character.  A number is an exact fraction         *)
(* [num, den] in lowest terms.                                             *)
(***************************************************************************)
EXTENDS Integers, Sequences, FiniteSets, TLC

VARIABLES
  input,              \* the structure the response text was written from
  text,               \* parseGeminiResponse's argument
  pc,                 \* "split", "forEach", "done"
  sections,           \* text.split(/(?=\d+\.)/)
  idx,                \* the forEach position, 1-based
  documentType, riskLevel, riskFactors, completionScore, missingClauses,
  keyTerms, summary, parties, dates, paymentTerms, terminationClauses,
  concerningPoints,
  thrown,             \* whether the catch block was entered
  result,             \* the returned record, once pc = "done"
  calls,              \* several invocations: the control state of each
  locals,             \* several invocations: the accumulators, by environment
  uploads,            \* the upload flow: the position of each handleFileUpload
  contractsAnalyzed,  \* the upload flow: the counter stored for the user
  analysesStarted     \* the upload flow: how many analyses were ever started

vars == <<input, text, pc, sections, idx, documentType, riskLevel, riskFactors,
          completionScore, missingClauses, keyTerms, summary, parties, dates,
          paymentTerms, terminationClauses, concerningPoints, thrown, result,
          calls, locals, uploads, contractsAnalyzed, analysesStarted>>

uploadFlow == <<uploads, contractsAnalyzed, analysesStarted>>

\* no upload is under way
NoUploads == uploads = <<>> /\ contractsAnalyzed = 0 /\ analysesStarted = 0

accumulators == <<documentType, riskLevel, riskFactors, completionScore,
                  missingClauses, keyTerms, summary, parties, dates,
                  paymentTerms, terminationClauses, concerningPoints>>

----------------------------------------------------------------------------
(* Characters and strings *)

NL == "\n"

Digit == {"0", "1", "2", "3", "4", "5", "6", "7", "8", "9"}

DigitSeq == <<"0", "1", "2", "3", "4", "5", "6", "7", "8", "9">>

UpperSeq == <<"A", "B", "C", "D", "E", "F", "G", "H", "I", "J", "K", "L", "M",
              "N", "O", "P", "Q", "R", "S", "T", "U", "V", "W", "X", "Y", "Z">>

LowerSeq == <<"a", "b", "c", "d", "e", "f", "g", "h", "i", "j", "k", "l", "m",
              "n", "o", "p", "q", "r", "s", "t", "u", "v", "w", "x", "y", "z">>

\* \s of a regular expression and the characters trim() removes; the
\* texts of this model hold no other white space than these two.
IsSpace(c) == c \in {" ", NL}

IsDigit(c) == c \in Digit

LowerOf == [c \in {UpperSeq[i] : i \in 1..26} |->
              LowerSeq[CHOOSE i \in 1..26 : UpperSeq[i] = c]]

Lower(c) == IF c \in DOMAIN LowerOf THEN LowerOf[c] ELSE c

toLowerCase(s) == [i \in 1..Len(s) |-> Lower(s[i])]

Min(S) == CHOOSE m \in S : \A n \in S : m <= n

Max(S) == CHOOSE m \in S : \A n \in S : m >= n

\* s.substring(i-1) in 1-based positions
From(s, i) == SubSeq(s, i, Len(s))

\* the literal lit stands at position i of s
MatchAt(s, i, lit) ==
  /\ i >= 1
  /\ i + Len(lit) - 1 <= Len(s)
  /\ \A k \in 1..Len(lit) : s[i + k - 1] = lit[k]

\* the same under the i flag; lit is written in lower case
MatchAtCI(s, i, lit) ==
  /\ i >= 1
  /\ i + Len(lit) - 1 <= Len(s)
  /\ \A k \in 1..Len(lit) : Lower(s[i + k - 1]) = lit[k]

startsWith(s, lit) == MatchAt(s, 1, lit)

\* the first position >= i where lit stands in s, 0 when there is none
RECURSIVE indexFrom(_, _, _)
indexFrom(s, lit, i) ==
  IF i + Len(lit) - 1 > Len(s) THEN 0
  ELSE IF MatchAt(s, i, lit) THEN i
  ELSE indexFrom(s, lit, i + 1)

\* 1-based s.indexOf(lit), 0 when absent
indexOf(s, lit) == indexFrom(s, lit, 1)

includes(s, lit) == indexOf(s, lit) # 0

\* the first position >= i that holds no white space (Len(s)+1 at the end):
\* where a greedy \s* started at i stops
RECURSIVE SkipWs(_, _)
SkipWs(s, i) == IF i > Len(s) \/ ~IsSpace(s[i]) THEN i ELSE SkipWs(s, i + 1)

\* the first position >= i that holds no digit: where a greedy \d* stops
RECURSIVE SkipDigits(_, _)
SkipDigits(s, i) == IF i > Len(s) \/ ~IsDigit(s[i]) THEN i ELSE SkipDigits(s, i + 1)

trim(s) ==
  LET a == SkipWs(s, 1)
      B == {j \in 1..Len(s) : ~IsSpace(s[j])}
  IN  IF B = {} THEN <<>> ELSE SubSeq(s, a, Max(B))

\* s.split(sep) for a non-empty string separator
RECURSIVE split(_, _)
split(s, sep) ==
  LET p == indexOf(s, sep)
  IN  IF p = 0 THEN <<s>>
      ELSE <<SubSeq(s, 1, p - 1)>> \o split(From(s, p + Len(sep)), sep)

\* items.join(sep)
RECURSIVE join(_, _)
join(items, sep) ==
  IF items = <<>> THEN <<>>
  ELSE IF Len(items) = 1 THEN items[1]
  ELSE items[1] \o sep \o join(Tail(items), sep)

Range(s) == {s[i] : i \in 1..Len(s)}

NonEmpty(s) == s # <<>>

----------------------------------------------------------------------------
(* Segmenter: text.split(/(?=\d+\.)/) *)

\* the lookahead (?=\d+\.) succeeds at position i
MarkerAt(s, i) ==
  /\ i >= 1 /\ i <= Len(s)
  /\ IsDigit(s[i])
  /\ LET j == SkipDigits(s, i) IN j <= Len(s) /\ s[j] = "."

\* String.prototype.split with a zero-width pattern cuts before every
\* position, other than the first, where the pattern matches; the empty
\* string, which the pattern does not match, yields one empty piece.
CutPoints(s) == {i \in 2..Len(s) : MarkerAt(s, i)}

RECURSIVE CutAt(_, _, _)
CutAt(s, from, cuts) ==
  IF cuts = {} THEN <<From(s, from)>>
  ELSE LET c == Min(cuts)
       IN  <<SubSeq(s, from, c - 1)>> \o CutAt(s, c, cuts \ {c})

\* a split that leaves out the empty pieces
SegmenterWithoutEmpty(s) == SelectSeq(CutAt(s, 1, CutPoints(s)), NonEmpty)

\* a split whose pattern takes the first digit of the marker with it
SegmenterConsuming(s) ==
  LET pieces == CutAt(s, 1, CutPoints(s))
  IN  [i \in 1..Len(pieces) |-> IF i = 1 THEN pieces[i] ELSE Tail(pieces[i])]

Segmenter(s) == CutAt(s, 1, CutPoints(s))

----------------------------------------------------------------------------
(* The bullet extraction primitive *)

\* line.replace(/^[-*]\s*/, '')
StripMarker(line) ==
  IF Len(line) >= 1 /\ line[1] \in {"-", "*"}
    THEN From(line, SkipWs(line, 2))
    ELSE line

IsHyphenLine(line) == startsWith(line, <<"-">>)

extractListItems(t) ==
  LET lines    == split(t, <<NL>>)
      trimmed  == [i \in 1..Len(lines) |-> trim(lines[i])]
      hyphened == SelectSeq(trimmed, IsHyphenLine)
      stripped == [i \in 1..Len(hyphened) |-> StripMarker(hyphened[i])]
  IN  SelectSeq(stripped, NonEmpty)

----------------------------------------------------------------------------
(* Numbers: parseFloat and the arithmetic of the completion score *)

RECURSIVE GCD(_, _)
GCD(a, b) == IF b = 0 THEN a ELSE GCD(b, a % b)

\* the fraction n/d (n >= 0, d > 0) in lowest terms
Rat(n, d) == LET g == GCD(n, d) IN [num |-> n \div g, den |-> d \div g]

RatLeq(a, b) == a.num * b.den <= b.num * a.den

RatDiv(a, k) == Rat(a.num, a.den * k)

RatMin(a, b) == IF RatLeq(a, b) THEN a ELSE b

Zero == Rat(0, 1)

One == Rat(1, 1)

Half == Rat(1, 2)

DigitVal(c) == (CHOOSE i \in 1..10 : DigitSeq[i] = c) - 1

RECURSIVE ParseInt(_)
ParseInt(ds) ==
  IF ds = <<>> THEN 0
  ELSE ParseInt(SubSeq(ds, 1, Len(ds) - 1)) * 10 + DigitVal(ds[Len(ds)])

RECURSIVE Pow10(_)
Pow10(n) == IF n = 0 THEN 1 ELSE 10 * Pow10(n - 1)

\* parseFloat of a capture of the shape \d+(\.\d+)?
parseFloat(cap) ==
  LET dot == indexOf(cap, <<".">>)
  IN  IF dot = 0 THEN Rat(ParseInt(cap), 1)
      ELSE LET ip == SubSeq(cap, 1, dot - 1)
               fp == From(cap, dot + 1)
           IN  Rat(ParseInt(ip) * Pow10(Len(fp)) + ParseInt(fp), Pow10(Len(fp)))

----------------------------------------------------------------------------
(* A match result: <<>> when the pattern does not match (null, undefined),
   <<capture>> when it does *)

NoMatch == <<>>

Matched(m) == m # <<>>

\* a || b on strings that may be undefined: the empty string is falsy too
OrElse(a, b) == IF Matched(a) /\ a[1] # <<>> THEN a ELSE b

\* s.split(sep)[1]
SecondPiece(s, sep) ==
  LET pieces == split(s, sep)
  IN  IF Len(pieces) >= 2 THEN <<pieces[2]>> ELSE NoMatch

----------------------------------------------------------------------------
(* Section 1: the document type *)

\* ([^\n-]+) after a greedy \s* that started at p: the white space gives
\* back characters until one that may start the capture is found
TypeCaptureStart(s, p) ==
  LET w == SkipWs(s, p)
      K == {k \in p..w : k <= Len(s) /\ s[k] \notin {NL, "-"}}
  IN  IF K = {} THEN 0 ELSE Max(K)

TypeCapture(s, p) ==
  LET k == TypeCaptureStart(s, p)
      e == Min({j \in k..(Len(s) + 1) : j = Len(s) + 1 \/ s[j] \in {NL, "-"}})
  IN  SubSeq(s, k, e - 1)

\* section.match(/Type:\s*([^\n-]+)/i)
MatchTypePlain(s) ==
  LET P == {i \in 1..Len(s) :
              MatchAtCI(s, i, <<"t", "y", "p", "e", ":">>) /\ TypeCaptureStart(s, i + 5) # 0}
  IN  IF P = {} THEN NoMatch ELSE <<TypeCapture(s, Min(P) + 5)>>

\* section.match(/Document Type:\s*([^\n-]+)/i)
MatchTypeDocument(s) ==
  LET P == {i \in 1..Len(s) :
              MatchAtCI(s, i, <<"d", "o", "c", "u", "m", "e", "n", "t", " ", "t", "y", "p", "e", ":">>) /\ TypeCaptureStart(s, i + 14) # 0}
  IN  IF P = {} THEN NoMatch ELSE <<TypeCapture(s, Min(P) + 14)>>

\* section.match(/Type\s*:\s*([^\n-]+)/i)
ColonAfterType(s, i) == SkipWs(s, i + 4)

MatchTypeSpaced(s) ==
  LET P == {i \in 1..Len(s) :
              /\ MatchAtCI(s, i, <<"t", "y", "p", "e">>)
              /\ MatchAt(s, ColonAfterType(s, i), <<":">>)
              /\ TypeCaptureStart(s, ColonAfterType(s, i) + 1) # 0}
  IN  IF P = {} THEN NoMatch
      ELSE <<TypeCapture(s, ColonAfterType(s, Min(P)) + 1)>>

typeMatch(s) ==
  IF Matched(MatchTypePlain(s)) THEN MatchTypePlain(s)
  ELSE IF Matched(MatchTypeDocument(s)) THEN MatchTypeDocument(s)
  ELSE MatchTypeSpaced(s)

\* where \s*:?\s* started at r ends (the first position not consumed)
PurposeTailEnd(s, r) ==
  LET a == SkipWs(s, r)
      b == IF a <= Len(s) /\ s[a] = ":" THEN a + 1 ELSE a
  IN  SkipWs(s, b)

\* the end of and\s+Purpose\s*:?\s* matched at q, 0 when it does not match
AndPurposeEnd(s, q) ==
  LET r == SkipWs(s, q + 3)
  IN  IF MatchAtCI(s, q, <<"a", "n", "d">>) /\ r > q + 3 /\ MatchAtCI(s, r, <<"p", "u", "r", "p", "o", "s", "e">>)
        THEN PurposeTailEnd(s, r + 7) ELSE 0

\* the end of -\s*Purpose\s*:?\s* matched at q
HyphenPurposeEnd(s, q) ==
  LET r == SkipWs(s, q + 1)
  IN  IF MatchAt(s, q, <<"-">>) /\ MatchAtCI(s, r, <<"p", "u", "r", "p", "o", "s", "e">>)
        THEN PurposeTailEnd(s, r + 7) ELSE 0

\* the end of Purpose\s*:?\s* matched at q
PurposeEnd(s, q) ==
  IF MatchAtCI(s, q, <<"p", "u", "r", "p", "o", "s", "e">>) THEN PurposeTailEnd(s, q + 7) ELSE 0

\* the end of \([^)]*\)\s* matched at q
ParenEnd(s, q) ==
  LET C == {j \in (q + 1)..Len(s) : s[j] = ")"}
  IN  IF MatchAt(s, q, <<"(">>) /\ C # {} THEN SkipWs(s, Min(C) + 1) ELSE 0

\* s.replace(/\s*and\s+Purpose\s*:?\s*/i, ''): the leftmost match, whose
\* leading \s* runs up to the position where the rest matches, is removed
RemoveAndPurpose(s) ==
  LET P == {p \in 1..Len(s) : AndPurposeEnd(s, SkipWs(s, p)) # 0}
  IN  IF P = {} THEN s
      ELSE SubSeq(s, 1, Min(P) - 1) \o From(s, AndPurposeEnd(s, SkipWs(s, Min(P))))

\* s.replace(/\s*-\s*Purpose\s*:?\s*/i, '')
RemoveHyphenPurpose(s) ==
  LET P == {p \in 1..Len(s) : HyphenPurposeEnd(s, SkipWs(s, p)) # 0}
  IN  IF P = {} THEN s
      ELSE SubSeq(s, 1, Min(P) - 1) \o From(s, HyphenPurposeEnd(s, SkipWs(s, Min(P))))

\* s.replace(/\s*Purpose\s*:?\s*/i, '')
RemovePurpose(s) ==
  LET P == {p \in 1..Len(s) : PurposeEnd(s, SkipWs(s, p)) # 0}
  IN  IF P = {} THEN s
      ELSE SubSeq(s, 1, Min(P) - 1) \o From(s, PurposeEnd(s, SkipWs(s, Min(P))))

\* s.replace(/\s*\([^)]*\)\s*/g, ''): every match, left to right
RECURSIVE RemoveParens(_)
RemoveParens(s) ==
  LET P == {p \in 1..Len(s) : ParenEnd(s, SkipWs(s, p)) # 0}
  IN  IF P = {} THEN s
      ELSE SubSeq(s, 1, Min(P) - 1)
             \o RemoveParens(From(s, ParenEnd(s, SkipWs(s, Min(P)))))

\* s.replace(/[:\s]+$/, '')
RemoveTrailingPunct(s) ==
  LET B == {j \in 1..Len(s) : ~(IsSpace(s[j]) \/ s[j] = ":")}
  IN  IF B = {} THEN <<>> ELSE SubSeq(s, 1, Max(B))

cleanDocumentType(cap) ==
  trim(RemoveTrailingPunct(RemoveParens(RemovePurpose(
         RemoveHyphenPurpose(RemoveAndPurpose(trim(cap)))))))

----------------------------------------------------------------------------
(* Section 3: dates *)

EmptyDates == [k \in {} |-> <<>>]

\* dates[key] = value
PutDate(d, key, value) ==
  [k \in (DOMAIN d) \cup {key} |-> IF k = key THEN value ELSE d[k]]

\* one dateItems.forEach step
AddDateItem(d, item) ==
  IF includes(item, <<":">>)
    THEN LET pieces == split(item, <<":">>)
             key    == trim(pieces[1])
             value  == trim(pieces[2])
         IN  IF key # <<>> /\ value # <<>> THEN PutDate(d, key, value) ELSE d
    ELSE d

RECURSIVE AddDateItems(_, _)
AddDateItems(d, items) ==
  IF items = <<>> THEN d
  ELSE AddDateItems(AddDateItem(d, items[1]), Tail(items))

----------------------------------------------------------------------------
(* Section 4: payment terms *)

\* item.replace(/^\d+\.\s*/, '')
StripNumeral(item) ==
  IF MarkerAt(item, 1) THEN From(item, SkipWs(item, SkipDigits(item, 1) + 1))
  ELSE item

cleanPaymentItem(item) == trim(StripNumeral(StripMarker(item)))

PaymentSeparator == <<" ", "|", "|", " ">>

paymentTermsOf(section) ==
  LET paymentItems == extractListItems(section)
      cleaned == [i \in 1..Len(paymentItems) |-> cleanPaymentItem(paymentItems[i])]
  IN  join(SelectSeq(cleaned, NonEmpty), PaymentSeparator)

\* ContractSummary: the terms shown for the paymentTerms of a record, none
\* ('Not specified') for the empty string
paymentTermsShown(terms) ==
  IF terms = <<>> THEN <<>> ELSE split(terms, PaymentSeparator)

----------------------------------------------------------------------------
(* Section 6: risk assessment *)

RiskWords == {<<"h", "i", "g", "h">>, <<"m", "e", "d", "i", "u", "m">>, <<"l", "o", "w">>}

RiskWordAt(s, q) == {w \in RiskWords : MatchAtCI(s, q, w)}

\* section.match(/Risk Level:\s*(High|Medium|Low)/i): the capture is the
\* text as it is written in the section
riskMatchOf(s) ==
  LET P == {i \in 1..Len(s) :
              MatchAtCI(s, i, <<"r", "i", "s", "k", " ", "l", "e", "v", "e", "l", ":">>) /\ RiskWordAt(s, SkipWs(s, i + 11)) # {}}
  IN  IF P = {} THEN NoMatch
      ELSE LET q == SkipWs(s, Min(P) + 11)
               w == CHOOSE w \in RiskWordAt(s, q) : TRUE
           IN  <<SubSeq(s, q, q + Len(w) - 1)>>

\* section.split('Risk Factors:')[1] || section.split('Risk Factors')[1]
riskSectionOf(s) ==
  OrElse(SecondPiece(s, <<"R", "i", "s", "k", " ", "F", "a", "c", "t", "o", "r", "s", ":">>), SecondPiece(s, <<"R", "i", "s", "k", " ", "F", "a", "c", "t", "o", "r", "s">>))

\* section.split('Concerning Elements:')[1] || section.split('Concerning Elements')[1]
concerningSectionOf(s) ==
  OrElse(SecondPiece(s, <<"C", "o", "n", "c", "e", "r", "n", "i", "n", "g", " ", "E", "l", "e", "m", "e", "n", "t", "s", ":">>), SecondPiece(s, <<"C", "o", "n", "c", "e", "r", "n", "i", "n", "g", " ", "E", "l", "e", "m", "e", "n", "t", "s">>))

Truthy(m) == Matched(m) /\ m[1] # <<>>

High == <<"H", "i", "g", "h">>

Medium == <<"M", "e", "d", "i", "u", "m">>

Low == <<"L", "o", "w">>

\* the fallback on the number of risk factors
riskLevelByCount(n) == IF n > 5 THEN High ELSE IF n > 2 THEN Medium ELSE Low

----------------------------------------------------------------------------
(* Section 8: the completion score *)

\* where (\d+(?:\.\d+)?) started at the digit at q ends
NumberEnd(s, q) ==
  LET e == SkipDigits(s, q)
  IN  IF e + 1 <= Len(s) /\ s[e] = "." /\ IsDigit(s[e + 1])
        THEN SkipDigits(s, e + 1) ELSE e

NumberAt(s, q) == SubSeq(s, q, NumberEnd(s, q) - 1)

DigitAt(s, q) == q <= Len(s) /\ IsDigit(s[q])

\* section.match(/Score:\s*(\d+(?:\.\d+)?)/i)
MatchScorePlain(s) ==
  LET P == {i \in 1..Len(s) :
              MatchAtCI(s, i, <<"s", "c", "o", "r", "e", ":">>) /\ DigitAt(s, SkipWs(s, i + 6))}
  IN  IF P = {} THEN NoMatch ELSE <<NumberAt(s, SkipWs(s, Min(P) + 6))>>

\* section.match(/Score\s*:\s*(\d+(?:\.\d+)?)/i)
ColonAfterScore(s, i) == SkipWs(s, i + 5)

MatchScoreSpaced(s) ==
  LET P == {i \in 1..Len(s) :
              /\ MatchAtCI(s, i, <<"s", "c", "o", "r", "e">>)
              /\ MatchAt(s, ColonAfterScore(s, i), <<":">>)
              /\ DigitAt(s, SkipWs(s, ColonAfterScore(s, i) + 1))}
  IN  IF P = {} THEN NoMatch
      ELSE <<NumberAt(s, SkipWs(s, ColonAfterScore(s, Min(P)) + 1))>>

\* section.match(/(\d+(?:\.\d+)?)/i)
MatchAnyNumber(s) ==
  LET P == {i \in 1..Len(s) : IsDigit(s[i])}
  IN  IF P = {} THEN NoMatch ELSE <<NumberAt(s, Min(P))>>

\* section.match(/(\d+\.\d+)/)
MatchDecimal(s) ==
  LET P == {i \in 1..Len(s) :
              /\ IsDigit(s[i])
              /\ MatchAt(s, SkipDigits(s, i), <<".">>)
              /\ DigitAt(s, SkipDigits(s, i) + 1)}
  IN  IF P = {} THEN NoMatch ELSE <<NumberAt(s, Min(P))>>

\* only the two patterns that ask for the label 'Score'
scoreMatchLabelled(s) ==
  IF Matched(MatchScorePlain(s)) THEN MatchScorePlain(s)
  ELSE MatchScoreSpaced(s)

scoreMatch(s) ==
  IF Matched(MatchScorePlain(s)) THEN MatchScorePlain(s)
  ELSE IF Matched(MatchScoreSpaced(s)) THEN MatchScoreSpaced(s)
  ELSE IF Matched(MatchAnyNumber(s)) THEN MatchAnyNumber(s)
  ELSE MatchDecimal(s)

\* the last branch without its Math.min
normalizeScoreUnclamped(extractedScore) ==
  IF RatLeq(Zero, extractedScore) /\ RatLeq(extractedScore, One)
    THEN extractedScore
  ELSE IF ~RatLeq(extractedScore, One) /\ RatLeq(extractedScore, Rat(10, 1))
    THEN RatDiv(extractedScore, 10)
  ELSE IF ~RatLeq(extractedScore, Rat(10, 1)) /\ RatLeq(extractedScore, Rat(100, 1))
    THEN RatDiv(extractedScore, 100)
  ELSE RatDiv(extractedScore, 10)

\* the branch of the values in (10, 100] left out
normalizeScoreNoPercent(extractedScore) ==
  IF RatLeq(Zero, extractedScore) /\ RatLeq(extractedScore, One)
    THEN extractedScore
  ELSE IF ~RatLeq(extractedScore, One) /\ RatLeq(extractedScore, Rat(10, 1))
    THEN RatDiv(extractedScore, 10)
  ELSE RatMin(RatDiv(extractedScore, 10), One)

\* lines 198-206: the scale of the extracted number decides the divisor
normalizeScore(extractedScore) ==
  IF RatLeq(Zero, extractedScore) /\ RatLeq(extractedScore, One)
    THEN extractedScore
  ELSE IF ~RatLeq(extractedScore, One) /\ RatLeq(extractedScore, Rat(10, 1))
    THEN RatDiv(extractedScore, 10)
  ELSE IF ~RatLeq(extractedScore, Rat(10, 1)) /\ RatLeq(extractedScore, Rat(100, 1))
    THEN RatDiv(extractedScore, 100)
  ELSE RatMin(RatDiv(extractedScore, 10), One)

totalExpectedFields == 8

Bool2Nat(b) == IF b THEN 1 ELSE 0

\* lines 218-225: [hasParties, ..., hasSummary].filter(Boolean).length
presentFieldsOf(hasParties, hasDates, hasKeyTerms, hasRisk, hasPayment, hasSummary) ==
  Bool2Nat(hasParties) + Bool2Nat(hasDates) + Bool2Nat(hasKeyTerms)
    + Bool2Nat(hasRisk) + Bool2Nat(hasPayment) + Bool2Nat(hasSummary)

\* lines 228-234: presentFields / totalExpectedFields - missingCount * 0.1,
\* clamped to [0, 1]; the value is n / (10 * totalExpectedFields)
fallbackScore(presentFields, missingCount) ==
  LET n == 10 * presentFields - totalExpectedFields * missingCount
      d == 10 * totalExpectedFields
  IN  IF n <= 0 THEN Zero ELSE IF n >= d THEN One ELSE Rat(n, d)

----------------------------------------------------------------------------
(* Termination clauses *)

TerminationWords ==
  {<<"t", "e", "r", "m", "i", "n", "a", "t">>, <<"c", "a", "n", "c", "e", "l">>, <<"r", "e", "v", "o", "k", "e">>, <<"e", "n", "d">>, <<"e", "x", "p", "i", "r", "a", "t", "i", "o", "n">>}

IsTerminationTerm(term) ==
  \E w \in TerminationWords : includes(toLowerCase(term), w)

\* the filter run over the lower-cased terms, which it then returns
terminationClausesLowered(terms) ==
  SelectSeq([i \in 1..Len(terms) |-> toLowerCase(terms[i])], IsTerminationTerm)

\* a search that stops at the first term it finds
terminationClausesFirstOnly(terms) ==
  LET found == SelectSeq(terms, IsTerminationTerm)
  IN  IF found = <<>> THEN <<>> ELSE <<found[1]>>

\* lines 246-255
terminationClausesOf(terms) == SelectSeq(terms, IsTerminationTerm)

----------------------------------------------------------------------------
(* The records parseGeminiResponse returns *)

Document == <<"D", "o", "c", "u", "m", "e", "n", "t">>

\* a catch block that returns what the try block had gathered of the key terms
catchRecordKeepingKeyTerms ==
  [documentType |-> Document, riskLevel |-> Medium, riskFactors |-> <<>>,
   completionScore |-> Half, missingClauses |-> <<>>, keyTerms |-> keyTerms,
   summary |-> <<>>, parties |-> <<>>, dates |-> EmptyDates,
   paymentTerms |-> <<>>, terminationClauses |-> <<>>,
   concerningPoints |-> <<>>]

\* lines 275-288: the record the catch block returns
catchRecord ==
  [documentType |-> Document, riskLevel |-> Medium, riskFactors |-> <<>>,
   completionScore |-> Half, missingClauses |-> <<>>, keyTerms |-> <<>>,
   summary |-> <<>>, parties |-> <<>>, dates |-> EmptyDates,
   paymentTerms |-> <<>>, terminationClauses |-> <<>>,
   concerningPoints |-> <<>>]

----------------------------------------------------------------------------
(* The response texts the normalizer is run on.  A response is written from
   a sequence of parts; Render gives the text of each. *)

MaxFactors == 6

MaxPoints == 4

MaxScore == 120

MaxMissing == 2

MaxTerms == 2

RECURSIVE Digits(_)
Digits(n) ==
  IF n < 10 THEN <<DigitSeq[n + 1]>>
  ELSE Digits(n \div 10) \o <<DigitSeq[(n % 10) + 1]>>

\* n one-letter bullets, the k-th named by the letter at position base + k,
\* each on a line of its own ("lines") or all on the current line
RECURSIVE Bullets(_, _, _)
Bullets(n, base, style) ==
  IF n = 0 THEN <<>>
  ELSE Bullets(n - 1, base, style)
         \o (IF style = "inline" THEN <<" ", "-", " ">> ELSE <<NL, "-", " ">>)
         \o <<LowerSeq[base + n]>>

RECURSIVE TextBullets(_)
TextBullets(items) ==
  IF items = <<>> THEN <<>>
  ELSE <<NL, "-", " ">> \o items[1] \o TextBullets(Tail(items))

\* the lines of a list: the k-th is named by the k-th letter and written
\* after a hyphen, after an asterisk, with an indent, or as plain prose; a
\* "bare" line is a hyphen with nothing after it
LineText(kind, k) ==
  CASE kind = "hyphen"   -> <<"-", " ", LowerSeq[k]>>
    [] kind = "asterisk" -> <<"*", " ", LowerSeq[k]>>
    [] kind = "indented" -> <<" ", " ", "-", LowerSeq[k], " ">>
    [] kind = "prose"    -> <<LowerSeq[k]>>
    [] kind = "bare"     -> <<"-", " ">>

RECURSIVE MarkedLines(_)
MarkedLines(kinds) ==
  IF kinds = <<>> THEN <<>>
  ELSE MarkedLines(SubSeq(kinds, 1, Len(kinds) - 1))
         \o <<NL>> \o LineText(kinds[Len(kinds)], Len(kinds))

\* the bullets of section 3: 'label: value', or the label alone when no
\* value is written
RECURSIVE DateBullets(_)
DateBullets(items) ==
  IF items = <<>> THEN <<>>
  ELSE <<NL, "-", " ">> \o items[1].label
         \o (IF items[1].value = <<>> THEN <<>> ELSE <<":", " ">> \o items[1].value)
         \o DateBullets(Tail(items))

\* what precedes a label of section 6: a blank ("inline", as in the
\* template of the design), a bullet on a new line ("bulleted", as the
\* prompt asks for) or a new line ("headed")
LabelLead(style) ==
  IF style = "inline" THEN <<" ">>
  ELSE IF style = "bulleted" THEN <<NL, "-", " ">>
  ELSE <<NL>>

BulletStyle(style) == IF style = "inline" THEN "inline" ELSE "lines"

RenderRisk(p) ==
  <<"6", ".", " ", "R", "i", "s", "k", " ", "A", "s", "s", "e", "s", "s", "m", "e", "n", "t", ":">>
    \o (IF p.level = <<>> THEN <<>>
        ELSE LabelLead(p.style) \o <<"R", "i", "s", "k", " ", "L", "e", "v", "e", "l", ":", " ">> \o p.level)
    \o (IF p.factors < 0 THEN <<>>
        ELSE LabelLead(p.style) \o <<"R", "i", "s", "k", " ", "F", "a", "c", "t", "o", "r", "s", ":">>
               \o Bullets(p.factors, 0, BulletStyle(p.style)))
    \o (IF p.points < 0 THEN <<>>
        ELSE LabelLead(p.style) \o <<"C", "o", "n", "c", "e", "r", "n", "i", "n", "g", " ", "E", "l", "e", "m", "e", "n", "t", "s", ":">>
               \o Bullets(p.points, 20, BulletStyle(p.style)))

RenderScore(p) ==
  CASE p.form = "inline"  -> <<"8", ".", " ", "C", "o", "m", "p", "l", "e", "t", "i", "o", "n", " ", "S", "c", "o", "r", "e", ":", " ", "S", "c", "o", "r", "e", ":", " ">> \o Digits(p.n)
    [] p.form = "bullet"  -> <<"8", ".", " ", "C", "o", "m", "p", "l", "e", "t", "i", "o", "n", " ", "S", "c", "o", "r", "e", ":", NL, "-", " ", "S", "c", "o", "r", "e", ":", " ">> \o Digits(p.n)
    [] p.form = "spaced"  -> <<"8", ".", " ", "C", "o", "m", "p", "l", "e", "t", "i", "o", "n", " ", "S", "c", "o", "r", "e", ":", NL, "-", " ", "S", "c", "o", "r", "e", " ", ":", " ">> \o Digits(p.n)
    [] p.form = "minus"   -> <<"8", ".", " ", "C", "o", "m", "p", "l", "e", "t", "i", "o", "n", " ", "S", "c", "o", "r", "e", ":", " ", "S", "c", "o", "r", "e", ":", " ", "-">> \o Digits(p.n)
    [] p.form = "decimal" -> <<"8", ".", " ", "C", "o", "m", "p", "l", "e", "t", "i", "o", "n", " ", "S", "c", "o", "r", "e", ":", NL, "-", " ", "S", "c", "o", "r", "e", ":", " ", "0", ".">> \o Digits(p.n)
    [] p.form = "sentence" -> <<"8", ".", " ", "C", "o", "m", "p", "l", "e", "t", "i", "o", "n", " ", "S", "c", "o", "r", "e", ":", " ", "S", "c", "o", "r", "e", ":", " ">> \o Digits(p.n) \o <<".">>
    [] p.form = "bare"    -> <<"8", ".", " ", "C", "o", "m", "p", "l", "e", "t", "i", "o", "n", " ", "S", "c", "o", "r", "e", ":", " ">> \o Digits(p.n)
    [] p.form = "tagged"  -> <<"8", ".">> \o Digits(p.n) \o <<" ", "C", "o", "m", "p", "l", "e", "t", "i", "o", "n", " ", "S", "c", "o", "r", "e">>
    [] p.form = "absent"  -> <<"8", ".", " ", "C", "o", "m", "p", "l", "e", "t", "i", "o", "n", " ", "S", "c", "o", "r", "e", ":", NL, "-", " ", "S", "c", "o", "r", "e", ":", " ", "n", "o", "t", " ", "s", "t", "a", "t", "e", "d">>

RenderType(p) ==
  <<"1", ".", " ", "D", "o", "c", "u", "m", "e", "n", "t", " ", "T", "y", "p", "e", " ", "a", "n", "d", " ", "P", "u", "r", "p", "o", "s", "e", ":">>
    \o LabelLead(p.style) \o p.label \o p.name \o p.tail

RenderPart(p) ==
  CASE p.kind = "risk"    -> RenderRisk(p)
    [] p.kind = "score"   -> RenderScore(p)
    [] p.kind = "type"    -> RenderType(p)
    [] p.kind = "terms"   -> <<"5", ".", " ", "K", "e", "y", " ", "T", "e", "r", "m", "s", " ", "a", "n", "d", " ", "C", "o", "n", "d", "i", "t", "i", "o", "n", "s", ":">> \o TextBullets(p.items)
    [] p.kind = "missing" ->
         <<"7", ".", " ", "M", "i", "s", "s", "i", "n", "g", " ", "o", "r", " ", "U", "n", "c", "l", "e", "a", "r", " ", "E", "l", "e", "m", "e", "n", "t", "s", ":">> \o Bullets(p.n, 0, "lines")
    [] p.kind = "parties" -> <<"2", ".", " ", "P", "a", "r", "t", "i", "e", "s", " ", "I", "n", "v", "o", "l", "v", "e", "d", ":">> \o Bullets(p.n, 0, "lines")
    [] p.kind = "list"    -> <<"2", ".", " ", "P", "a", "r", "t", "i", "e", "s", " ", "I", "n", "v", "o", "l", "v", "e", "d", ":">> \o MarkedLines(p.lines)
    [] p.kind = "dates"   -> <<"3", ".", " ", "I", "m", "p", "o", "r", "t", "a", "n", "t", " ", "D", "a", "t", "e", "s", ":">> \o DateBullets(p.entries)
    [] p.kind = "payment" ->
         <<"4", ".", " ", "P", "a", "y", "m", "e", "n", "t", " ", "T", "e", "r", "m", "s", " ", "a", "n", "d", " ", "F", "i", "n", "a", "n", "c", "i", "a", "l", " ", "D", "e", "t", "a", "i", "l", "s", ":">> \o TextBullets(p.items)
    [] p.kind = "raw"     -> p.text

\* the parts, each followed by a line break, in order
RECURSIVE Render(_)
Render(parts) ==
  IF parts = <<>> THEN <<>>
  ELSE RenderPart(parts[1])
         \o (IF Len(parts) > 1 THEN <<NL>> ELSE <<>>) \o Render(Tail(parts))

RiskTokens == {<<>>, <<"L", "o", "w">>, <<"M", "e", "d", "i", "u", "m">>, <<"H", "i", "g", "h">>, <<"H", "I", "G", "H">>}

RiskParts ==
  [kind : {"risk"}, level : RiskTokens, style : {"inline", "bulleted", "headed"},
   factors : -1..MaxFactors, points : -1..MaxPoints]

\* the first of two sections 6
EarlierRiskParts ==
  {p \in RiskParts : p.style = "headed" /\ p.factors \in {-1, MaxFactors}}

\* a second section 6 later in the response
LaterRiskParts ==
  [kind : {"risk"}, level : {<<>>, <<"L", "o", "w">>}, style : {"inline"},
   factors : {-1, 1}, points : {-1}]

ScoreParts ==
  [kind : {"score"},
   form : {"inline", "bullet", "spaced", "minus", "decimal", "bare"},
   n : 0..MaxScore]
  \cup [kind : {"score"}, form : {"tagged"}, n : 0..9]
  \cup [kind : {"score"}, form : {"sentence"}, n : {7, 85}]
  \cup [kind : {"score"}, form : {"absent"}, n : {0}]

\* what may precede the score: parties and the missing elements
Preambles ==
  {<<[kind |-> "missing", n |-> m]>> : m \in 0..MaxMissing}
  \cup {<<[kind |-> "parties", n |-> 1], [kind |-> "missing", n |-> m]>> :
          m \in 0..MaxMissing}

PreambleScores ==
  [kind : {"score"}, form : {"absent", "bullet", "decimal"}, n : {0}]
  \cup [kind : {"score"}, form : {"bullet", "decimal"}, n : {7}]

TypeLabels == {<<"T", "y", "p", "e", ":", " ">>, <<"D", "o", "c", "u", "m", "e", "n", "t", " ", "T", "y", "p", "e", ":", " ">>, <<"T", "y", "p", "e", " ", ":", " ">>, <<"K", "i", "n", "d", ":", " ">>}

TypeNames == {<<"E", "m", "p", "l", "o", "y", "m", "e", "n", "t", " ", "A", "g", "r", "e", "e", "m", "e", "n", "t">>, <<"L", "e", "a", "s", "e", " ", "(", "R", "e", "s", "i", "d", "e", "n", "t", "i", "a", "l", ")">>}

TypeTails ==
  {<<>>, <<" ", "a", "n", "d", " ", "P", "u", "r", "p", "o", "s", "e", ":", " ", "t", "o", " ", "d", "e", "f", "i", "n", "e", " ", "t", "e", "r", "m", "s">>, <<NL, "-", " ", "P", "u", "r", "p", "o", "s", "e", ":", " ", "t", "o", " ", "d", "e", "f", "i", "n", "e", " ", "t", "e", "r", "m", "s">>,
   <<" ", "P", "u", "r", "p", "o", "s", "e", ":", " ", "t", "o", " ", "d", "e", "f", "i", "n", "e", " ", "t", "e", "r", "m", "s">>, <<" ", "(", "D", "r", "a", "f", "t", ")", ":">>, <<" ", "-", " ", "t", "o", " ", "d", "e", "f", "i", "n", "e", " ", "t", "e", "r", "m", "s">>}

TypeParts ==
  [kind : {"type"}, style : {"inline", "bulleted"}, label : TypeLabels,
   name : TypeNames, tail : TypeTails]

\* sections 1 that write no name after the label
UnnamedTypeParts ==
  [kind : {"type"}, style : {"inline", "bulleted"}, label : {<<"T", "y", "p", "e", ":", " ">>},
   name : {<<>>}, tail : {<<"(", "D", "r", "a", "f", "t", ")">>, <<"a", "n", "d", " ", "P", "u", "r", "p", "o", "s", "e", ":">>, <<"(", "s", "e", "e", " ", "a", "n", "n", "e", "x", ")", ":">>}]

KeyTermTexts ==
  {<<"E", "a", "r", "l", "y", " ", "t", "e", "r", "m", "i", "n", "a", "t", "i", "o", "n", " ", "a", "l", "l", "o", "w", "e", "d", " ", "w", "i", "t", "h", " ", "3", "0", " ", "d", "a", "y", "s", " ", "n", "o", "t", "i", "c", "e">>, <<"C", "A", "N", "C", "E", "L", " ", "a", "n", "y", "t", "i", "m", "e">>,
   <<"P", "e", "n", "d", "i", "n", "g", " ", "a", "p", "p", "r", "o", "v", "a", "l">>, <<"P", "a", "y", "m", "e", "n", "t", " ", "d", "u", "e", " ", "m", "o", "n", "t", "h", "l", "y">>, <<"G", "o", "v", "e", "r", "n", "i", "n", "g", " ", "l", "a", "w">>}

RECURSIVE SeqsUpTo(_, _)
SeqsUpTo(S, n) ==
  IF n = 0 THEN {<<>>}
  ELSE LET R == SeqsUpTo(S, n - 1)
       IN  R \cup {Append(r, x) : r \in {q \in R : Len(q) = n - 1}, x \in S}

TermsParts == [kind : {"terms"}, items : SeqsUpTo(KeyTermTexts, MaxTerms)]

\* the first of two sections 5
EarlierTermsParts == [kind : {"terms"}, items : SeqsUpTo(KeyTermTexts, 1)]

MaxLines == 3

LineKinds == {"hyphen", "asterisk", "indented", "prose", "bare"}

ListParts == [kind : {"list"}, lines : SeqsUpTo(LineKinds, MaxLines)]

MaxDates == 2

DateItems ==
  {[label |-> <<"S", "t", "a", "r", "t">>, value |-> <<"M", "a", "y", " ", "5">>],
   [label |-> <<"S", "t", "a", "r", "t">>, value |-> <<"J", "u", "n", "e", " ", "1">>],
   [label |-> <<"M", "e", "e", "t", "i", "n", "g">>, value |-> <<"1", "0", ":", "3", "0">>],
   [label |-> <<"S", "i", "g", "n", "e", "d">>, value |-> <<>>]}

DateParts == [kind : {"dates"}, entries : SeqsUpTo(DateItems, MaxDates)]

MaxPayments == 2

PaymentTexts ==
  {<<"A", "m", "o", "u", "n", "t", ":", " ", "5", "0", "0", " ", "U", "S", "D">>, <<"L", "a", "t", "e", " ", "f", "e", "e", ":", " ", "5", " ", "|", "|", " ", "1", "0", " ", "U", "S", "D">>, <<"D", "u", "e", " ", "m", "o", "n", "t", "h", "l", "y">>}

PaymentParts == [kind : {"payment"}, items : SeqsUpTo(PaymentTexts, MaxPayments)]

\* the nine sections as the prompt lays them out
FullResponse ==
  <<[kind |-> "type", style |-> "bulleted", label |-> <<"T", "y", "p", "e", ":", " ">>,
     name |-> <<"E", "m", "p", "l", "o", "y", "m", "e", "n", "t", " ", "A", "g", "r", "e", "e", "m", "e", "n", "t">>, tail |-> <<NL, "-", " ", "P", "u", "r", "p", "o", "s", "e", ":", " ", "t", "o", " ", "d", "e", "f", "i", "n", "e", " ", "t", "e", "r", "m", "s">>],
    [kind |-> "parties", n |-> 2],
    [kind |-> "raw", text |->
       <<"3", ".", " ", "I", "m", "p", "o", "r", "t", "a", "n", "t", " ", "D", "a", "t", "e", "s", ":", NL, "-", " ", "E", "f", "f", "e", "c", "t", "i", "v", "e", " ", "D", "a", "t", "e", ":", " ", "J", "a", "n", "u", "a", "r", "y", " ", "5", NL, "-", " ", "S", "i", "g", "n", "e", "d", NL, "-", " ", "E", "f", "f", "e", "c", "t", "i", "v", "e", " ", "D", "a", "t", "e", ":", " ", "M", "a", "r", "c", "h", " ", "1">>],
    [kind |-> "raw", text |->
       <<"4", ".", " ", "P", "a", "y", "m", "e", "n", "t", " ", "T", "e", "r", "m", "s", " ", "a", "n", "d", " ", "F", "i", "n", "a", "n", "c", "i", "a", "l", " ", "D", "e", "t", "a", "i", "l", "s", ":", NL, "-", " ", "P", "a", "y", "m", "e", "n", "t", " ", "A", "m", "o", "u", "n", "t", ":", " ", "5", "0", "0", " ", "U", "S", "D", NL, "-", " ", "P", "a", "y", "m", "e", "n", "t", " ", "S", "c", "h", "e", "d", "u", "l", "e", ":", " ", "m", "o", "n", "t", "h", "l", "y">>],
    [kind |-> "terms", items |-> <<<<"E", "a", "r", "l", "y", " ", "t", "e", "r", "m", "i", "n", "a", "t", "i", "o", "n", " ", "a", "l", "l", "o", "w", "e", "d", " ", "w", "i", "t", "h", " ", "3", "0", " ", "d", "a", "y", "s", " ", "n", "o", "t", "i", "c", "e">>,
                                   <<"G", "o", "v", "e", "r", "n", "i", "n", "g", " ", "l", "a", "w">>>>],
    [kind |-> "risk", level |-> <<"H", "i", "g", "h">>, style |-> "bulleted",
     factors |-> 2, points |-> 1],
    [kind |-> "missing", n |-> 1],
    [kind |-> "score", form |-> "bullet", n |-> 1],
    [kind |-> "raw", text |->
       <<"9", ".", " ", "P", "l", "a", "i", "n", " ", "E", "n", "g", "l", "i", "s", "h", " ", "S", "u", "m", "m", "a", "r", "y", ":", NL, "-", " ", "O", "v", "e", "r", "v", "i", "e", "w", ":", " ", "a", "n", " ", "e", "m", "p", "l", "o", "y", "m", "e", "n", "t", " ", "c", "o", "n", "t", "r", "a", "c", "t", NL, "-", " ", "K", "e", "y", " ", "R", "i", "g", "h", "t", "s", ":", " ", "s", "a", "l", "a", "r", "y">>]>>

\* Scenario A of the design, word for word
ScenarioA ==
  <<"6", ".", " ", "R", "i", "s", "k", " ", "A", "s", "s", "e", "s", "s", "m", "e", "n", "t", ":", " ", "R", "i", "s", "k", " ", "L", "e", "v", "e", "l", ":", " ", "L", "o", "w", " ", "R", "i", "s", "k", " ", "F", "a", "c", "t", "o", "r", "s", ":", " ", "-", " ", "a", " ", "-", " ", "b", " ", "-", " ", "c", " ", "-", " ", "d", " ", "-", " ", "e", " ", "-", " ", "f", " ", "C", "o", "n", "c", "e", "r", "n", "i", "n", "g", " ", "E", "l", "e", "m", "e", "n", "t", "s", ":", " ", "-", " ", "x", " ", "-", " ", "y", " ", "-", " ", "z", " ", "-", " ", "w">>

\* a score followed by a summary that ends a sentence with a year
ScoreThenYear ==
  <<[kind |-> "score", form |-> "inline", n |-> 85],
    [kind |-> "raw", text |-> <<"9", ".", " ", "P", "l", "a", "i", "n", " ", "E", "n", "g", "l", "i", "s", "h", " ", "S", "u", "m", "m", "a", "r", "y", ":", NL, "-", " ", "V", "a", "l", "i", "d", " ", "u", "n", "t", "i", "l", " ", "2", "0", "2", "8", ".">>]>>

\* labels, bullets and numbers, and no section marker
Unnumbered == <<"2", " ", "P", "a", "r", "t", "i", "e", "s", " ", "I", "n", "v", "o", "l", "v", "e", "d", NL, "-", " ", "a", NL, "R", "i", "s", "k", " ", "L", "e", "v", "e", "l", ":", " ", "H", "i", "g", "h", NL, "-", " ", "S", "c", "o", "r", "e", ":", " ", "8", "5", NL, "-", " ", "T", "y", "p", "e", ":", " ", "L", "e", "a", "s", "e">>

\* a response that numbers a section beyond the nine of the prompt
TwelfthSection == <<"1", "2", ".", " ", "A", "d", "d", "i", "t", "i", "o", "n", "a", "l", " ", "N", "o", "t", "e", "s", ":", NL, "-", " ", "x">>

\* responses that state a section twice
TwoDateSections ==
  <<"3", ".", " ", "I", "m", "p", "o", "r", "t", "a", "n", "t", " ", "D", "a", "t", "e", "s", ":", NL, "-", " ", "S", "t", "a", "r", "t", ":", " ", "M", "a", "y", NL, "3", ".", " ", "I", "m", "p", "o", "r", "t", "a", "n", "t", " ", "D", "a", "t", "e", "s", ":", NL, "-", " ", "E", "n", "d", ":", " ", "J", "u", "n", "e">>

TwoTypeSections ==
  <<"1", ".", " ", "D", "o", "c", "u", "m", "e", "n", "t", " ", "T", "y", "p", "e", " ", "a", "n", "d", " ", "P", "u", "r", "p", "o", "s", "e", ":", NL, "-", " ", "T", "y", "p", "e", ":", " ", "L", "e", "a", "s", "e", NL, "1", ".", " ", "O", "v", "e", "r", "v", "i", "e", "w", " ", "o", "f", " ", "t", "h", "e", " ", "d", "o", "c", "u", "m", "e", "n", "t">>

\* a payment section that states an amount with a decimal point, after
\* the parties
AmountInPayment ==
  <<[kind |-> "parties", n |-> 2],
    [kind |-> "raw", text |->
       <<"4", ".", " ", "P", "a", "y", "m", "e", "n", "t", " ", "T", "e", "r", "m", "s", " ", "a", "n", "d", " ", "F", "i", "n", "a", "n", "c", "i", "a", "l", " ", "D", "e", "t", "a", "i", "l", "s", ":", NL, "-", " ", "L", "a", "t", "e", " ", "f", "e", "e", ":", " ", "$", "2", ".", "5", "0", " ", "p", "e", "r", " ", "d", "a", "y">>]>>

\* a risk section that refers to a numbered clause, after the key terms
ClauseInRisk ==
  <<[kind |-> "terms", items |-> <<<<"G", "o", "v", "e", "r", "n", "i", "n", "g", " ", "l", "a", "w">>>>],
    [kind |-> "raw", text |->
       <<"6", ".", " ", "R", "i", "s", "k", " ", "A", "s", "s", "e", "s", "s", "m", "e", "n", "t", ":", NL, "-", " ", "R", "i", "s", "k", " ", "L", "e", "v", "e", "l", ":", " ", "H", "i", "g", "h", NL, "-", " ", "R", "i", "s", "k", " ", "F", "a", "c", "t", "o", "r", "s", ":", NL, "-", " ", "p", "e", "n", "a", "l", "t", "y", " ", "o", "f", " ", "c", "l", "a", "u", "s", "e", " ", "5", ".", "1", " ", "a", "p", "p", "l", "i", "e", "s", NL, "-", " ", "n", "o", " ", "c", "a", "p">>]>>

RawResponses ==
  {<<>>, ScoreThenYear, AmountInPayment, ClauseInRisk,
   <<[kind |-> "raw", text |-> TwoDateSections]>>,
   <<[kind |-> "raw", text |-> TwoTypeSections]>>,
   <<[kind |-> "raw", text |-> TwelfthSection]>>,
   <<[kind |-> "parties", n |-> 1], [kind |-> "raw", text |-> TwelfthSection]>>,
   <<[kind |-> "raw", text |-> Unnumbered]>>,
   <<[kind |-> "raw", text |-> ScenarioA]>>,
   <<[kind |-> "raw", text |-> <<>>]>>,
   <<[kind |-> "raw", text |-> <<"T", "h", "e", " ", "d", "o", "c", "u", "m", "e", "n", "t", " ", "c", "o", "u", "l", "d", " ", "n", "o", "t", " ", "b", "e", " ", "a", "n", "a", "l", "y", "s", "e", "d">>]>>,
   <<[kind |-> "raw", text |-> <<NL, " ", NL>>]>>}

Inputs ==
  {<<p>> : p \in RiskParts}
  \cup {<<p, q>> : p \in EarlierRiskParts, q \in LaterRiskParts}
  \cup {<<p>> : p \in ScoreParts}
  \cup Preambles
  \cup {pre \o <<p>> : pre \in Preambles, p \in PreambleScores}
  \cup {<<p>> : p \in TypeParts}
  \cup {<<p>> : p \in UnnamedTypeParts}
  \cup {<<p>> : p \in TermsParts}
  \cup {<<p, q>> : p \in EarlierTermsParts, q \in TermsParts}
  \cup {<<p>> : p \in PaymentParts}
  \cup {<<p>> : p \in DateParts}
  \cup {<<p>> : p \in ListParts}
  \cup {FullResponse, SubSeq(FullResponse, 1, 7)}
  \cup RawResponses

----------------------------------------------------------------------------
(* parseGeminiResponse as a state machine: the split, one step for each
   call of the forEach callback, the derivation and the return; a throw
   inside the try block ends in the catch block. *)

NoResult == <<>>

Init ==
  /\ input \in Inputs
  /\ text = Render(input)
  /\ pc = "split"
  /\ sections = <<>>
  /\ idx = 1
  /\ documentType = Document
  /\ riskLevel = Medium
  /\ riskFactors = <<>>
  /\ completionScore = Half
  /\ missingClauses = <<>>
  /\ keyTerms = <<>>
  /\ summary = <<>>
  /\ parties = <<>>
  /\ dates = EmptyDates
  /\ paymentTerms = <<>>
  /\ terminationClauses = <<>>
  /\ concerningPoints = <<>>
  /\ thrown = FALSE
  /\ result = NoResult
  /\ calls = <<>>
  /\ NoUploads
  /\ locals = <<>>

\* lines 66-79
Split ==
  /\ pc = "split"
  /\ sections' = Segmenter(text)
  /\ idx' = 1
  /\ documentType' = Document
  /\ riskLevel' = Medium
  /\ riskFactors' = <<>>
  /\ completionScore' = Half
  /\ missingClauses' = <<>>
  /\ keyTerms' = <<>>
  /\ summary' = <<>>
  /\ parties' = <<>>
  /\ dates' = EmptyDates
  /\ paymentTerms' = <<>>
  /\ terminationClauses' = <<>>
  /\ concerningPoints' = <<>>
  /\ pc' = "forEach"
  /\ UNCHANGED <<input, text, thrown, result, calls, locals, uploadFlow>>

\* lines 85-106
documentTypeAfter(section, current) ==
  IF startsWith(section, <<"1", ".">>) /\ Matched(typeMatch(section))
    THEN cleanDocumentType(typeMatch(section)[1])
    ELSE current

\* lines 153-162: the risk factors of a section 6
riskFactorsAfter(section, current) ==
  IF Truthy(riskSectionOf(section))
    THEN extractListItems(riskSectionOf(section)[1])
    ELSE current

\* lines 165-172: the concerning points of a section 6
concerningPointsAfter(section, current) ==
  IF Truthy(concerningSectionOf(section))
    THEN extractListItems(concerningSectionOf(section)[1])
    ELSE current

\* an inference by the number of risk factors that is made whether or not
\* a token was matched
riskLevelCountFirst(section, current) ==
  IF Truthy(riskSectionOf(section))
    THEN riskLevelByCount(Len(riskFactorsAfter(section, <<>>)))
    ELSE current

\* lines 147-172: the risk level a section 6 leaves
riskLevelAfter(section, current) ==
  LET riskMatch == riskMatchOf(section)
      explicit  == IF Matched(riskMatch) THEN riskMatch[1] ELSE current
      counted   == IF Truthy(riskSectionOf(section)) /\ ~Matched(riskMatch)
                     THEN riskLevelByCount(Len(riskFactorsAfter(section, <<>>)))
                     ELSE explicit
  IN  IF /\ Truthy(concerningSectionOf(section))
         /\ Len(concerningPointsAfter(section, <<>>)) > 3
         /\ counted # High
        THEN High ELSE counted

\* lines 183-235: the completion score a section 8 leaves
completionScoreAfter(section) ==
  IF Matched(scoreMatch(section))
    THEN normalizeScore(parseFloat(scoreMatch(section)[1]))
    ELSE fallbackScore(
           presentFieldsOf(Len(parties) > 0, DOMAIN dates # {}, Len(keyTerms) > 0,
                           Len(riskFactors) > 0, Len(paymentTerms) > 0,
                           Len(summary) > 0),
           Len(missingClauses))

\* lines 80-243: one call of the forEach callback
ProcessSection ==
  /\ pc = "forEach"
  /\ idx <= Len(sections)
  /\ LET section == sections[idx]
         is(tag) == trim(section) # <<>> /\ startsWith(section, tag)
     IN  /\ documentType' = IF is(<<"1", ".">>) THEN documentTypeAfter(section, documentType)
                            ELSE documentType
         /\ parties' = IF is(<<"2", ".">>) THEN extractListItems(section) ELSE parties
         /\ dates' = IF is(<<"3", ".">>) THEN AddDateItems(dates, extractListItems(section))
                     ELSE dates
         /\ paymentTerms' = IF is(<<"4", ".">>) THEN paymentTermsOf(section) ELSE paymentTerms
         /\ keyTerms' = IF is(<<"5", ".">>) THEN extractListItems(section) ELSE keyTerms
         /\ riskLevel' = IF is(<<"6", ".">>) THEN riskLevelAfter(section, riskLevel)
                         ELSE riskLevel
         /\ riskFactors' = IF is(<<"6", ".">>) THEN riskFactorsAfter(section, riskFactors)
                           ELSE riskFactors
         /\ concerningPoints' = IF is(<<"6", ".">>)
                                  THEN concerningPointsAfter(section, concerningPoints)
                                  ELSE concerningPoints
         /\ missingClauses' = IF is(<<"7", ".">>) THEN extractListItems(section)
                              ELSE missingClauses
         /\ completionScore' = IF is(<<"8", ".">>) THEN completionScoreAfter(section)
                               ELSE completionScore
         /\ summary' = IF is(<<"9", ".">>) THEN join(extractListItems(section), <<" ">>)
                       ELSE summary
  /\ idx' = idx + 1
  /\ UNCHANGED <<input, text, pc, sections, terminationClauses, thrown, result,
                 calls, locals, uploadFlow>>

\* lines 245-272: the derivation of the termination clauses and the return
Return ==
  /\ pc = "forEach"
  /\ idx > Len(sections)
  /\ terminationClauses' = terminationClausesOf(keyTerms)
  /\ result' =
       [documentType |-> documentType, riskLevel |-> riskLevel,
        riskFactors |-> riskFactors, completionScore |-> completionScore,
        missingClauses |-> missingClauses, keyTerms |-> keyTerms,
        summary |-> summary, parties |-> parties, dates |-> dates,
        paymentTerms |-> paymentTerms,
        terminationClauses |-> terminationClauses',
        concerningPoints |-> concerningPoints]
  /\ pc' = "done"
  /\ UNCHANGED <<input, text, sections, idx, documentType, riskLevel, riskFactors,
                 completionScore, missingClauses, keyTerms, summary, parties,
                 dates, paymentTerms, concerningPoints, thrown, calls, locals, uploadFlow>>

\* lines 274-289: an error raised by a step of the try block (the engine's
\* RangeError on exhausted memory or stack is the one a string argument
\* leaves possible) is caught and the default record returned
Catch ==
  /\ pc \in {"split", "forEach"}
  /\ thrown' = TRUE
  /\ result' = catchRecord
  /\ pc' = "done"
  /\ UNCHANGED <<input, text, sections, idx, accumulators, calls, locals, uploadFlow>>

Next == Split \/ ProcessSection \/ Return \/ Catch

Spec == Init /\ [][Next]_vars


----------------------------------------------------------------------------
(* Several invocations of parseGeminiResponse.  Every call of the function
   creates an environment of its own for the declarations of lines 66-79;
   the steps of the invocations are taken in any order, one after another
   or interleaved. *)

MaxCalls == 3

Invocations == 1..MaxCalls

\* accumulators declared once, outside the function: a call starts from
\* what a call that returned before it has left
localsLeftBehind ==
  LET over == {d \in Invocations : calls[d].pc = "done" /\ ~calls[d].thrown}
  IN  IF over = {} THEN catchRecord ELSE locals[Min(over)]

\* lines 68-79: the accumulators as they are declared
initialLocals ==
  [documentType |-> Document, riskLevel |-> Medium, riskFactors |-> <<>>,
   completionScore |-> Half, missingClauses |-> <<>>, keyTerms |-> <<>>,
   summary |-> <<>>, parties |-> <<>>, dates |-> EmptyDates,
   paymentTerms |-> <<>>, terminationClauses |-> <<>>,
   concerningPoints |-> <<>>]

\* one environment for all the invocations
environmentShared(c) == 1

\* the environment that holds the declarations of invocation c
environmentOf(c) == c

\* lines 183-235 on the accumulators f
completionScoreIn(section, f) ==
  IF Matched(scoreMatch(section))
    THEN normalizeScore(parseFloat(scoreMatch(section)[1]))
    ELSE fallbackScore(
           presentFieldsOf(Len(f.parties) > 0, DOMAIN f.dates # {},
                           Len(f.keyTerms) > 0, Len(f.riskFactors) > 0,
                           Len(f.paymentTerms) > 0, Len(f.summary) > 0),
           Len(f.missingClauses))

\* a callback that starts the dates and the key terms afresh at every
\* section
sectionStepStartingAfresh(f, section) ==
  LET is(tag) == trim(section) # <<>> /\ startsWith(section, tag)
  IN  [documentType |-> IF is(<<"1", ".">>) THEN documentTypeAfter(section, f.documentType)
                        ELSE f.documentType,
       parties |-> IF is(<<"2", ".">>) THEN extractListItems(section) ELSE f.parties,
       dates |-> IF is(<<"3", ".">>) THEN AddDateItems(f.dates, extractListItems(section))
                 ELSE EmptyDates,
       paymentTerms |-> IF is(<<"4", ".">>) THEN paymentTermsOf(section) ELSE f.paymentTerms,
       keyTerms |-> IF is(<<"5", ".">>) THEN extractListItems(section) ELSE <<>>,
       riskLevel |-> IF is(<<"6", ".">>) THEN riskLevelAfter(section, f.riskLevel)
                     ELSE f.riskLevel,
       riskFactors |-> IF is(<<"6", ".">>) THEN riskFactorsAfter(section, f.riskFactors)
                       ELSE f.riskFactors,
       concerningPoints |-> IF is(<<"6", ".">>)
                              THEN concerningPointsAfter(section, f.concerningPoints)
                              ELSE f.concerningPoints,
       missingClauses |-> IF is(<<"7", ".">>) THEN extractListItems(section)
                          ELSE f.missingClauses,
       completionScore |-> IF is(<<"8", ".">>) THEN completionScoreIn(section, f)
                           ELSE f.completionScore,
       summary |-> IF is(<<"9", ".">>) THEN join(extractListItems(section), <<" ">>)
                   ELSE f.summary,
       terminationClauses |-> f.terminationClauses]

\* lines 80-243: what one call of the forEach callback makes of the
\* accumulators f
sectionStep(f, section) ==
  LET is(tag) == trim(section) # <<>> /\ startsWith(section, tag)
  IN  [documentType |-> IF is(<<"1", ".">>) THEN documentTypeAfter(section, f.documentType)
                        ELSE f.documentType,
       parties |-> IF is(<<"2", ".">>) THEN extractListItems(section) ELSE f.parties,
       dates |-> IF is(<<"3", ".">>) THEN AddDateItems(f.dates, extractListItems(section))
                 ELSE f.dates,
       paymentTerms |-> IF is(<<"4", ".">>) THEN paymentTermsOf(section) ELSE f.paymentTerms,
       keyTerms |-> IF is(<<"5", ".">>) THEN extractListItems(section) ELSE f.keyTerms,
       riskLevel |-> IF is(<<"6", ".">>) THEN riskLevelAfter(section, f.riskLevel)
                     ELSE f.riskLevel,
       riskFactors |-> IF is(<<"6", ".">>) THEN riskFactorsAfter(section, f.riskFactors)
                       ELSE f.riskFactors,
       concerningPoints |-> IF is(<<"6", ".">>)
                              THEN concerningPointsAfter(section, f.concerningPoints)
                              ELSE f.concerningPoints,
       missingClauses |-> IF is(<<"7", ".">>) THEN extractListItems(section)
                          ELSE f.missingClauses,
       completionScore |-> IF is(<<"8", ".">>) THEN completionScoreIn(section, f)
                           ELSE f.completionScore,
       summary |-> IF is(<<"9", ".">>) THEN join(extractListItems(section), <<" ">>)
                   ELSE f.summary,
       terminationClauses |-> f.terminationClauses]

\* lines 80-243: the forEach over the sections
RECURSIVE runSections(_, _)
runSections(f, secs) ==
  IF secs = <<>> THEN f ELSE runSections(sectionStep(f, secs[1]), Tail(secs))

\* lines 66-272: the record one invocation, run alone and without a throw,
\* returns for the text t
parseGeminiResponse(t) ==
  LET f == runSections(initialLocals, Segmenter(t))
  IN  [f EXCEPT !.terminationClauses = terminationClausesOf(f.keyTerms)]

\* lines 80-272: the record returned when the forEach runs over segs
recordOfSegments(segs) ==
  LET f == runSections(initialLocals, segs)
  IN  [f EXCEPT !.terminationClauses = terminationClausesOf(f.keyTerms)]

\* the responses the invocations are run on
CallTexts ==
  {<<"3", ".", " ", "I", "m", "p", "o", "r", "t", "a", "n", "t", " ", "D", "a", "t", "e", "s", ":", NL, "-", " ", "S", "t", "a", "r", "t", ":", " ", "M", "a", "y", NL, "6", ".", " ", "R", "i", "s", "k", " ", "A", "s", "s", "e", "s", "s", "m", "e", "n", "t", ":", " ", "R", "i", "s", "k", " ", "L", "e", "v", "e", "l", ":", " ", "H", "i", "g", "h">>,
   <<"3", ".", " ", "I", "m", "p", "o", "r", "t", "a", "n", "t", " ", "D", "a", "t", "e", "s", ":", NL, "-", " ", "E", "n", "d", ":", " ", "J", "u", "n", "e">>}

NoLocals == <<>>

\* the variables of the single invocation, which stand still here
single == <<input, text, pc, sections, idx, accumulators, thrown, result,
            uploadFlow>>

InitCalls ==
  /\ calls \in [Invocations ->
                  [text : CallTexts, pc : {"split"}, sections : {<<>>}, idx : {1},
                   thrown : {FALSE}, result : {NoResult}, afterOthers : {FALSE}]]
  /\ locals = [e \in Invocations |-> NoLocals]
  /\ input = <<>> /\ text = <<>> /\ pc = "calls" /\ sections = <<>> /\ idx = 1
  /\ documentType = Document /\ riskLevel = Medium /\ riskFactors = <<>>
  /\ completionScore = Half /\ missingClauses = <<>> /\ keyTerms = <<>>
  /\ summary = <<>> /\ parties = <<>> /\ dates = EmptyDates
  /\ paymentTerms = <<>> /\ terminationClauses = <<>> /\ concerningPoints = <<>>
  /\ thrown = FALSE /\ result = NoResult
  /\ NoUploads

\* the invocations are numbered in the order in which they begin
MayBegin(c) == \A d \in Invocations : d < c => calls[d].pc # "split"

\* lines 66-79 of invocation c; afterOthers records whether the invocations
\* that began before c were all over when c began
CallSplit(c) ==
  /\ calls[c].pc = "split"
  /\ MayBegin(c)
  /\ calls' = [calls EXCEPT ![c].sections = Segmenter(calls[c].text),
                            ![c].idx = 1,
                            ![c].pc = "forEach",
                            ![c].afterOthers =
                               \A d \in Invocations : d < c => calls[d].pc = "done"]
  /\ locals' = [locals EXCEPT ![environmentOf(c)] = initialLocals]
  /\ UNCHANGED single

\* lines 80-243 of invocation c: one call of the forEach callback
CallProcessSection(c) ==
  /\ calls[c].pc = "forEach"
  /\ calls[c].idx <= Len(calls[c].sections)
  /\ locals' = [locals EXCEPT ![environmentOf(c)] =
                                sectionStep(@, calls[c].sections[calls[c].idx])]
  /\ calls' = [calls EXCEPT ![c].idx = @ + 1]
  /\ UNCHANGED single

\* lines 245-272 of invocation c
CallReturn(c) ==
  /\ calls[c].pc = "forEach"
  /\ calls[c].idx > Len(calls[c].sections)
  /\ locals' = [locals EXCEPT ![environmentOf(c)].terminationClauses =
                                terminationClausesOf(locals[environmentOf(c)].keyTerms)]
  /\ calls' = [calls EXCEPT ![c].result = locals'[environmentOf(c)],
                            ![c].pc = "done"]
  /\ UNCHANGED single

\* lines 274-289 of invocation c
CallCatch(c) ==
  /\ calls[c].pc \in {"split", "forEach"}
  /\ MayBegin(c)
  /\ calls' = [calls EXCEPT ![c].thrown = TRUE,
                            ![c].result = catchRecord,
                            ![c].pc = "done"]
  /\ UNCHANGED <<locals, single>>

NextCalls ==
  \E c \in Invocations :
    CallSplit(c) \/ CallProcessSection(c) \/ CallReturn(c) \/ CallCatch(c)

SpecCalls == InitCalls /\ [][NextCalls]_vars

----------------------------------------------------------------------------
(* The upload flow: handleFileUpload of the Analyzer component, with
   getContractsAnalyzed, analyzeDocument and incrementContractsAnalyzed of
   the analysis service.  The counter is a field of the user's document in
   the store; every await is a point where another upload may run. *)

MaxUploads == 6

Uploads == 1..MaxUploads

\* the limit of the free plan
maxContracts == 5

\* the plan of the signed-in user
plan == "free"

Upload(position, read, times) == [pc |-> position, count |-> read, raised |-> times]

InitUploads ==
  /\ uploads = [u \in Uploads |-> Upload("idle", 0, 0)]
  /\ contractsAnalyzed = 0
  /\ analysesStarted = 0
  /\ calls = <<>> /\ locals = <<>>
  /\ input = <<>> /\ text = <<>> /\ pc = "uploads" /\ sections = <<>> /\ idx = 1
  /\ documentType = Document /\ riskLevel = Medium /\ riskFactors = <<>>
  /\ completionScore = Half /\ missingClauses = <<>> /\ keyTerms = <<>>
  /\ summary = <<>> /\ parties = <<>> /\ dates = EmptyDates
  /\ paymentTerms = <<>> /\ terminationClauses = <<>> /\ concerningPoints = <<>>
  /\ thrown = FALSE /\ result = NoResult

\* the variables of parseGeminiResponse, which stand still here
parsing == <<input, text, pc, sections, idx, accumulators, thrown, result,
             calls, locals>>

\* the uploads are numbered in the order in which they begin
MayBeginUpload(u) == \A v \in Uploads : v < u => uploads[v].pc # "idle"

\* updateDoc with increment(1); a rejected update is logged and the counter
\* stays
incremented(counted) == IF counted THEN contractsAnalyzed + 1 ELSE contractsAnalyzed

\* handleFileUpload up to the await of getContractsAnalyzed: the stored
\* count is read
GetContractsAnalyzed(u) ==
  /\ uploads[u].pc = "idle"
  /\ MayBeginUpload(u)
  /\ plan = "free"
  /\ uploads' = [uploads EXCEPT ![u] = Upload("read", contractsAnalyzed, 0)]
  /\ UNCHANGED <<contractsAnalyzed, analysesStarted, parsing>>

\* the count that was read is compared with the limit: the upload is
\* refused, or the analysis starts
Compare(u) ==
  /\ uploads[u].pc = "read"
  /\ IF uploads[u].count >= maxContracts
       THEN /\ uploads' = [uploads EXCEPT ![u] = Upload("refused", 0, 0)]
            /\ UNCHANGED analysesStarted
       ELSE /\ uploads' = [uploads EXCEPT ![u] = Upload("analyzing", 0, 0)]
            /\ analysesStarted' = analysesStarted + 1
  /\ UNCHANGED <<contractsAnalyzed, parsing>>

\* analyzeDocument without a throw: the analysis is stored and the counter
\* incremented
AnalyzeDocument(u) ==
  /\ uploads[u].pc = "analyzing"
  /\ \E counted \in BOOLEAN :
       /\ contractsAnalyzed' = incremented(counted)
       /\ uploads' = [uploads EXCEPT ![u] =
                        Upload("analyzed", 0, IF counted THEN 1 ELSE 0)]
  /\ UNCHANGED <<analysesStarted, parsing>>

\* analyzeDocument throws, before the counter is touched; handleFileUpload
\* reports the failure
AnalysisFails(u) ==
  /\ uploads[u].pc = "analyzing"
  /\ uploads' = [uploads EXCEPT ![u] = Upload("failed", 0, 0)]
  /\ UNCHANGED <<contractsAnalyzed, analysesStarted, parsing>>

\* handleFileUpload after analyzeDocument has returned: the counter is
\* incremented, read again and the result page is shown
IncrementContractsAnalyzed(u) ==
  /\ uploads[u].pc = "analyzed"
  /\ \E counted \in BOOLEAN :
       /\ contractsAnalyzed' = incremented(counted)
       /\ uploads' = [uploads EXCEPT ![u] =
                        Upload("done", 0,
                               uploads[u].raised + (IF counted THEN 1 ELSE 0))]
  /\ UNCHANGED <<analysesStarted, parsing>>

NextUploads ==
  \E u \in Uploads :
    \/ GetContractsAnalyzed(u)
    \/ Compare(u)
    \/ AnalyzeDocument(u)
    \/ AnalysisFails(u)
    \/ IncrementContractsAnalyzed(u)

SpecUploads == InitUploads /\ [][NextUploads]_vars
----------------------------------------------------------------------------
(* Properties *)

Returned == pc = "done" /\ ~thrown

\* the sections the extractor of a tag runs on
SectionsTagged(tag) ==
  {i \in 1..Len(sections) : trim(sections[i]) # <<>> /\ startsWith(sections[i], tag)}

\* a is b with some entries left out
RECURSIVE IsSubsequence(_, _)
IsSubsequence(a, b) ==
  IF a = <<>> THEN TRUE
  ELSE IF b = <<>> THEN FALSE
  ELSE IF a[1] = b[1] THEN IsSubsequence(Tail(a), Tail(b))
  ELSE IsSubsequence(a, Tail(b))

\* C1: the completionScore of every returned record lies in [0, 1],
\* whatever number section 8 carries and also without a section 8.
C1_ScoreInUnitInterval ==
  pc = "done" =>
    /\ result.completionScore.num >= 0
    /\ result.completionScore.den > 0
    /\ RatLeq(Zero, result.completionScore)
    /\ RatLeq(result.completionScore, One)

\* a score far above 100 was read from section 8 and came out as 1
C1_Witness ==
  /\ Returned
  /\ input = <<[kind |-> "score", form |-> "inline", n |-> MaxScore]>>
  /\ MaxScore > 100
  /\ result.completionScore = One

\* C2: the riskLevel of every returned record is one of 'Low', 'Medium',
\* 'High', also when the 'Risk Level:' token is written in another case.
C2_RiskLevelCanonical ==
  pc = "done" => result.riskLevel \in {Low, Medium, High}

\* C3: a returned record with more than 3 concerningPoints has riskLevel
\* 'High', however many sections begin with '6.'.
C3_ManyConcernsForceHigh ==
  pc = "done" =>
    (Len(result.concerningPoints) > 3 => result.riskLevel = High)

\* C4: the returned terminationClauses is a sub-sequence of the returned
\* keyTerms, also when several sections '5.' overwrite keyTerms.
C4_TerminationWithinKeyTerms ==
  pc = "done" =>
    /\ \A i \in 1..Len(result.terminationClauses) :
         result.terminationClauses[i] \in Range(result.keyTerms)
    /\ IsSubsequence(result.terminationClauses, result.keyTerms)

\* two sections '5.' were read, and some but not all of the last one's
\* terms, one of them written in capitals, are termination clauses
C4_Witness ==
  /\ Returned
  /\ Cardinality(SectionsTagged(<<"5", ".">>)) = 2
  /\ result.terminationClauses # <<>>
  /\ Len(result.terminationClauses) < Len(result.keyTerms)
  /\ \E i \in 1..Len(result.terminationClauses) :
       result.terminationClauses[i] # toLowerCase(result.terminationClauses[i])

\* C5: a throw inside the pipeline never reaches the caller: the call
\* returns, and what it returns is the full default record, with none of
\* the values gathered before the throw.
C5_CatchReturnsDefaults ==
  thrown =>
    /\ pc = "done"
    /\ result.documentType = Document
    /\ result.riskLevel = Medium
    /\ result.completionScore = Rat(1, 2)
    /\ result.riskFactors = <<>> /\ result.missingClauses = <<>>
    /\ result.keyTerms = <<>> /\ result.parties = <<>>
    /\ result.terminationClauses = <<>> /\ result.concerningPoints = <<>>
    /\ DOMAIN result.dates = {}
    /\ result.paymentTerms = <<>> /\ result.summary = <<>>

\* the throw came after key terms, a risk level and a document type other
\* than the defaults had been extracted
C5_Witness ==
  /\ thrown /\ pc = "done"
  /\ keyTerms # <<>> /\ riskLevel # Medium /\ documentType # Document
  /\ result.keyTerms = <<>>

\* C6: on the text of Scenario A (explicit 'Low', six risk factors and
\* four concerning elements, all on the line of their markers) the four
\* concerning elements are counted as four and riskLevel is 'High'.
C6_ScenarioAIsHigh ==
  (Returned /\ text = ScenarioA) =>
    /\ Len(result.concerningPoints) = 4
    /\ result.riskLevel = High

\* C7: a section 8 that states its score as a decimal d in [0, 1] in the
\* format of the prompt ('- Score: 0.7' on the line after the heading)
\* yields completionScore = d.
C7_DecimalScoreKept ==
  ( /\ Returned /\ Len(input) = 1
    /\ input[1].kind = "score" /\ input[1].form = "decimal" )
  => result.completionScore = Rat(input[1].n, Pow10(Len(Digits(input[1].n))))

\* C8: without a section '8.', with parties, dates, keyTerms, riskFactors,
\* paymentTerms and summary all empty and 2 missingClauses, completionScore
\* is the fallback max(0, 0/8 - 0.2) = 0.
C8_FallbackWithoutSection8 ==
  ( /\ Returned
    /\ SectionsTagged(<<"8", ".">>) = {}
    /\ result.parties = <<>> /\ DOMAIN result.dates = {}
    /\ result.keyTerms = <<>> /\ result.riskFactors = <<>>
    /\ result.paymentTerms = <<>> /\ result.summary = <<>>
    /\ Len(result.missingClauses) = 2 )
  => result.completionScore = Zero

\* C9: on 'Type: T and Purpose: P' in one line of section 1 the returned
\* documentType is T (Scenario E: T = 'Employment Agreement').
C9_PurposeClauseStripped ==
  ( /\ Returned /\ Len(input) = 1 /\ input[1].kind = "type"
    /\ input[1].style = "inline"
    /\ input[1].label = <<"T", "y", "p", "e", ":", " ">>
    /\ input[1].tail = <<" ", "a", "n", "d", " ", "P", "u", "r", "p", "o", "s", "e", ":", " ", "t", "o", " ", "d", "e", "f", "i", "n", "e", " ", "t", "e", "r", "m", "s">>
    /\ "(" \notin Range(input[1].name) )
  => result.documentType = input[1].name

\* the whole numbers N written as 'Score: N' in the response
WholeScores ==
  {input[k].n : k \in {j \in 1..Len(input) :
                         /\ input[j].kind = "score"
                         /\ input[j].form \in {"inline", "bullet", "spaced"}}}

\* the call returned and exactly one section '8.' was read
OneScoreSection ==
  Returned /\ Cardinality(SectionsTagged(<<"8", ".">>)) = 1

ContainsWord(term, w) == \E i \in 1..Len(term) : MatchAtCI(term, i, w)

\* the entries of terms that contain one of words, in the order of terms
RECURSIVE TermsNaming(_, _)
TermsNaming(terms, words) ==
  IF terms = <<>> THEN <<>>
  ELSE (IF \E w \in words : ContainsWord(terms[1], w) THEN <<terms[1]>> ELSE <<>>)
         \o TermsNaming(Tail(terms), words)

EarlyTermination == <<"E", "a", "r", "l", "y", " ", "t", "e", "r", "m", "i", "n", "a", "t", "i", "o", "n", " ", "a", "l", "l", "o", "w", "e", "d", " ", "w", "i", "t", "h", " ", "3", "0", " ", "d", "a", "y", "s", " ", "n", "o", "t", "i", "c", "e">>

\* C11: terminationClauses is exactly the keyTerms entries whose lower-case
\* form contains 'terminat', 'cancel', 'revoke', 'end' or 'expiration',
\* in keyTerms order and verbatim; the derivation leaves keyTerms as the
\* loop left it; 'Early termination allowed with 30 days notice' among
\* the key terms is among the termination clauses.
C11_TerminationClausesExact ==
  pc = "done" =>
    /\ result.terminationClauses =
         TermsNaming(result.keyTerms,
                     {<<"t", "e", "r", "m", "i", "n", "a", "t">>, <<"c", "a", "n", "c", "e", "l">>, <<"r", "e", "v", "o", "k", "e">>, <<"e", "n", "d">>, <<"e", "x", "p", "i", "r", "a", "t", "i", "o", "n">>})
    /\ (~thrown => result.keyTerms = keyTerms)
    /\ (EarlyTermination \in Range(result.keyTerms)
          => EarlyTermination \in Range(result.terminationClauses))

\* two key terms, 'Early termination ...' and one written in capitals, are
\* both termination clauses and both still key terms
C11_Witness ==
  /\ Returned
  /\ result.keyTerms = <<EarlyTermination, <<"C", "A", "N", "C", "E", "L", " ", "a", "n", "y", "t", "i", "m", "e">>>>
  /\ result.terminationClauses = result.keyTerms

\* invocation c returned from the try block
ReturnedCall(c) == calls[c].pc = "done" /\ ~calls[c].thrown

\* C12: two invocations on the same string return records that are equal
\* field by field, whatever invocations ran before, between or during
\* them (an invocation that ends in the catch block aside).
C12_SameTextSameRecord ==
  \A c, d \in Invocations :
    (ReturnedCall(c) /\ ReturnedCall(d) /\ calls[c].text = calls[d].text)
      => /\ calls[c].result = calls[d].result
         /\ \A k \in DOMAIN calls[c].result : calls[c].result[k] = calls[d].result[k]

\* the first and the third invocation ran on the same string, the second,
\* on another string that gives other dates, ran between them, each began
\* when the one before was over, and the first and the third returned the
\* same record
C12_Witness ==
  /\ \A c \in 1..3 : ReturnedCall(c)
  /\ calls[1].text = calls[3].text /\ calls[2].text # calls[1].text
  /\ calls[2].afterOthers /\ calls[3].afterOthers
  /\ DOMAIN calls[1].result.dates # {}
  /\ DOMAIN calls[2].result.dates # DOMAIN calls[1].result.dates
  /\ calls[1].result = calls[3].result

\* t holds a boundary marker: a digit immediately followed by a period
\* ends a run of one or more digits followed by a period
HasMarker(t) == \E j \in 1..(Len(t) - 1) : t[j] \in Digit /\ t[j + 1] = "."

\* the record of the defaults
FullDefaultRecord ==
  [documentType |-> <<"D", "o", "c", "u", "m", "e", "n", "t">>, riskLevel |-> <<"M", "e", "d", "i", "u", "m">>, riskFactors |-> <<>>,
   completionScore |-> [num |-> 1, den |-> 2], missingClauses |-> <<>>,
   keyTerms |-> <<>>, summary |-> <<>>, parties |-> <<>>,
   dates |-> [k \in {} |-> <<>>], paymentTerms |-> <<>>,
   terminationClauses |-> <<>>, concerningPoints |-> <<>>]

\* C13: a text without a boundary marker, the empty string included, is
\* split into exactly one segment, the whole text, and the returned record
\* is the full default record.
C13_NoMarkerOneSegmentDefaults ==
  (Returned /\ ~HasMarker(text)) =>
    /\ Len(sections) = 1
    /\ sections[1] = text
    /\ result = FullDefaultRecord

\* a text with labels, bullets and numbers but no marker was read as one
\* segment and gave the defaults
C13_Witness ==
  /\ Returned
  /\ text = Unnumbered
  /\ ~HasMarker(text)
  /\ sections = <<text>>
  /\ result.riskLevel = <<"M", "e", "d", "i", "u", "m">> /\ result.parties = <<>>

\* C14: the payment items of section 4, already clean and not empty, come
\* back one by one and in order when the returned paymentTerms is split
\* on ' || ' as the renderer does, whatever the text of an item; without
\* an item paymentTerms is the empty string.
C14_PaymentTermsSplitBack ==
  (Returned /\ Len(input) = 1 /\ input[1].kind = "payment") =>
    /\ paymentTermsShown(result.paymentTerms) = input[1].items
    /\ (input[1].items = <<>> => result.paymentTerms = <<>>)

\* what an invocation run alone returns for each of the texts
RecordAlone == [t \in CallTexts |-> parseGeminiResponse(t)]

\* C15: invocations whose steps interleave in any order each return the
\* record they return when run alone (an invocation that ends in the
\* catch block aside).
C15_InterleavedAsAlone ==
  \A c \in Invocations :
    ReturnedCall(c) => calls[c].result = RecordAlone[calls[c].text]

\* the second invocation began while the first was under way, on another
\* string, and each returned its own record
C15_Witness ==
  /\ ReturnedCall(1) /\ ReturnedCall(2)
  /\ ~calls[2].afterOthers
  /\ calls[1].text # calls[2].text
  /\ calls[1].result = RecordAlone[calls[1].text]
  /\ calls[2].result = RecordAlone[calls[2].text]
  /\ calls[1].result # calls[2].result

\* the positions of t where a complete boundary marker begins: a run of
\* digits that no digit precedes and a period follows
MarkerStarts(t) ==
  {i \in 1..Len(t) :
     /\ t[i] \in Digit
     /\ (i = 1 \/ t[i - 1] \notin Digit)
     /\ \E j \in i..(Len(t) - 1) :
          (\A k \in i..j : t[k] \in Digit) /\ t[j + 1] = "."}

\* the position of text at which the i-th segment begins
RECURSIVE SegmentStart(_)
SegmentStart(i) == IF i = 1 THEN 1 ELSE SegmentStart(i - 1) + Len(sections[i - 1])

\* C16: the segments after the first begin exactly where a complete
\* boundary marker begins, so a marker of several digits such as '12.'
\* starts one segment; and a segment that begins with a marker of several
\* digits is picked up by no extractor of a single-digit section.
C16_SegmentsBeginAtWholeMarkers ==
  Returned =>
    /\ {SegmentStart(i) : i \in 2..Len(sections)} = MarkerStarts(text) \ {1}
    /\ ((\A i \in MarkerStarts(text) : text[i + 1] \in Digit)
          => result = FullDefaultRecord)

\* the fields of the record that the extractor of section k sets
OwnedFields ==
  [k \in {"1", "2", "3", "4", "5", "6", "7", "8", "9"} |->
     CASE k = "1" -> {"documentType"}
       [] k = "2" -> {"parties"}
       [] k = "3" -> {"dates"}
       [] k = "4" -> {"paymentTerms"}
       [] k = "5" -> {"keyTerms", "terminationClauses"}
       [] k = "6" -> {"riskLevel", "riskFactors", "concerningPoints"}
       [] k = "7" -> {"missingClauses"}
       [] k = "8" -> {"completionScore"}
       [] k = "9" -> {"summary"}]

\* the last of the segments that begin with tag
LastTagged(tag) == sections[Max(SectionsTagged(tag))]

\* C17: when two or more segments begin with the same tag 'k.', every
\* field of extractor k in the returned record is what the last of them
\* alone produces; nothing from an earlier one survives.
C17_LastSameNumberedWins ==
  Returned =>
    \A k \in DOMAIN OwnedFields :
      Cardinality(SectionsTagged(<<k, ".">>)) >= 2 =>
        \A field \in OwnedFields[k] :
          result[field] = parseGeminiResponse(LastTagged(<<k, ".">>))[field]

\* how many of parties, dates, keyTerms, riskFactors, paymentTerms and
\* summary are not empty in the record r
PresentFields(r) ==
  Cardinality({f \in {"parties", "keyTerms", "riskFactors", "paymentTerms", "summary"} :
                 r[f] # <<>>})
    + (IF DOMAIN r.dates # {} THEN 1 ELSE 0)

\* present/8 - 0.1 * missing, clamped to [0, 1]
FallbackValue(r) ==
  LET eightieths == 10 * PresentFields(r) - 8 * Len(r.missingClauses)
  IN  IF eightieths <= 0 THEN Zero
      ELSE IF eightieths >= 80 THEN One
      ELSE Rat(eightieths, 80)

\* the response ends with a section 8 that writes no number
ScoreNotWritten ==
  /\ Len(input) >= 1
  /\ input[Len(input)].kind = "score" /\ input[Len(input)].form = "absent"

\* C18: with a section '8.' that writes no score number, completionScore
\* is the fallback: the number of non-empty fields among parties, dates,
\* keyTerms, riskFactors, paymentTerms and summary, divided by 8, minus
\* 0.1 for each of the missingClauses, clamped to [0, 1].
C18_FallbackWhenNoScoreWritten ==
  (OneScoreSection /\ ScoreNotWritten) =>
    result.completionScore = FallbackValue(result)

\* the items of a list written as lines of the given kinds: one for each
\* line that begins with a hyphen or an asterisk and has a text
RECURSIVE ItemsOfLines(_)
ItemsOfLines(kinds) ==
  IF kinds = <<>> THEN <<>>
  ELSE ItemsOfLines(SubSeq(kinds, 1, Len(kinds) - 1))
         \o (IF kinds[Len(kinds)] \in {"hyphen", "asterisk", "indented"}
               THEN <<<<LowerSeq[Len(kinds)]>>>> ELSE <<>>)

\* C19: extractListItems returns, in source order, one item for every line
\* that after trimming begins with a hyphen or with an asterisk, without
\* the marker and the white space after it; the other lines are dropped
\* and no item is empty.
C19_HyphenAndAsteriskLines ==
  (Returned /\ Len(input) = 1 /\ input[1].kind = "list") =>
    /\ result.parties = ItemsOfLines(input[1].lines)
    /\ \A i \in 1..Len(result.parties) : result.parties[i] # <<>>

\* the response is one section 6 that writes no 'Risk Level:' token
OneRiskSectionWithoutToken ==
  /\ Returned /\ Len(input) = 1
  /\ input[1].kind = "risk" /\ input[1].level = <<>>

\* C20: with a section 6 that carries no 'Risk Level:' token, and no more
\* than 3 concerning points, so that rule 3 leaves the level alone,
\* riskLevel follows the number of riskFactors: more than 5 gives High,
\* more than 2 Medium, otherwise Low; without a 'Risk Factors' marker the
\* number is 0 and the level Low.
C20_RiskLevelByFactorCount ==
  (OneRiskSectionWithoutToken /\ Len(result.concerningPoints) <= 3) =>
    /\ result.riskLevel =
         IF Len(result.riskFactors) > 5 THEN <<"H", "i", "g", "h">>
         ELSE IF Len(result.riskFactors) > 2 THEN <<"M", "e", "d", "i", "u", "m">>
         ELSE <<"L", "o", "w">>
    /\ (input[1].factors < 0 => result.riskFactors = <<>>)

\* the response is one section 6 that writes a 'Risk Level:' token
OneRiskSectionWithToken ==
  /\ Returned /\ Len(input) = 1
  /\ input[1].kind = "risk" /\ input[1].level # <<>>

\* C21: with one section 6 that carries a 'Risk Level:' token and at most
\* 3 concerning points, the returned riskLevel is that token, whatever the
\* number of riskFactors.
C21_ExplicitTokenKept ==
  (OneRiskSectionWithToken /\ input[1].points <= 3) =>
    /\ Len(result.concerningPoints) <= 3
    /\ result.riskLevel = input[1].level

\* the token 'Low' was kept although more than 5 risk factors were read
C21_Witness ==
  /\ OneRiskSectionWithToken
  /\ input[1].points = 3 /\ Len(result.concerningPoints) = 3
  /\ Len(result.riskFactors) > 5
  /\ input[1].level = <<"L", "o", "w">>
  /\ result.riskLevel = <<"L", "o", "w">>

\* the mapping the written date items stand for: an item with a value
\* stores it under its label, a later one over an earlier one; an item
\* without a colon stores nothing
RECURSIVE DatesWritten(_)
DatesWritten(items) ==
  IF items = <<>> THEN [k \in {} |-> <<>>]
  ELSE LET before == DatesWritten(SubSeq(items, 1, Len(items) - 1))
           last   == items[Len(items)]
       IN  IF last.value = <<>> THEN before
           ELSE [k \in (DOMAIN before) \cup {last.label} |->
                   IF k = last.label THEN last.value ELSE before[k]]

\* C22: a section-3 item with a colon is split at its first colon only,
\* the label before it, the value the whole text after it (further colons
\* included, as in '10:30'); an item without a colon adds nothing; a later
\* item with the same label overwrites the earlier value.
C22_DatesSplitAtFirstColon ==
  (Returned /\ Len(input) = 1 /\ input[1].kind = "dates") =>
    result.dates = DatesWritten(input[1].entries)

\* the accumulators as a record
Accumulated ==
  [documentType |-> documentType, riskLevel |-> riskLevel,
   riskFactors |-> riskFactors, completionScore |-> completionScore,
   missingClauses |-> missingClauses, keyTerms |-> keyTerms, summary |-> summary,
   parties |-> parties, dates |-> dates, paymentTerms |-> paymentTerms,
   terminationClauses |-> terminationClauses,
   concerningPoints |-> concerningPoints]

\* the fields the callback may change on the segment: those of the
\* extractor whose tag the segment begins with, none for a blank segment
\* and for one that begins with no tag
FieldsOpenTo(segment) ==
  IF \A i \in 1..Len(segment) : segment[i] \in {" ", NL} THEN {}
  ELSE UNION {OwnedFields[k] \ {"terminationClauses"} :
                k \in {d \in DOMAIN OwnedFields :
                         Len(segment) >= 2 /\ segment[1] = d /\ segment[2] = "."}}

\* C23: processing one segment changes only the fields of the extractor
\* whose tag the segment begins with; a segment that begins with none of
\* '1.' to '9.', or is blank, changes nothing; a field whose tag never
\* occurs keeps its default.
C23_OnlyOwnFieldsChange ==
  /\ (pc = "forEach" =>
        /\ Accumulated = runSections(initialLocals, SubSeq(sections, 1, idx - 1))
        /\ idx <= Len(sections) =>
             LET before == Accumulated
                 after  == sectionStep(before, sections[idx])
             IN  \A field \in DOMAIN before \ FieldsOpenTo(sections[idx]) :
                   after[field] = before[field])
  /\ (Returned =>
        \A k \in DOMAIN OwnedFields :
          SectionsTagged(<<k, ".">>) = {} =>
            \A field \in OwnedFields[k] : result[field] = FullDefaultRecord[field])

\* the sixth segment of the full response is about to change the risk
\* level, and the parties, dates and key terms read before stay
C23_Witness ==
  /\ pc = "forEach" /\ input = FullResponse /\ idx = 6
  /\ FieldsOpenTo(sections[idx]) = {"riskLevel", "riskFactors", "concerningPoints"}
  /\ parties # <<>> /\ DOMAIN dates # {} /\ keyTerms # <<>>
  /\ LET after == sectionStep(Accumulated, sections[idx])
     IN  after.riskLevel # riskLevel /\ after.keyTerms = keyTerms

MaxPermuted == 4

\* every segment begins with one of the tags '1.' to '9.', each with
\* another
DistinctlyTagged ==
  /\ \A i \in 1..Len(sections) : FieldsOpenTo(sections[i]) # {}
  /\ \A i, j \in 1..Len(sections) : i # j => sections[i][1] # sections[j][1]

\* the segments in the order p
Reordered(p) == [i \in 1..Len(sections) |-> sections[p[i]]]

\* C24: segments with pairwise different tags among '1.' to '9.' give the
\* same record, completionScore and riskLevel included, in whatever order
\* they are fed to the extractors.
C24_OrderInsensitive ==
  (Returned /\ Len(sections) <= MaxPermuted /\ DistinctlyTagged) =>
    \A p \in Permutations(1..Len(sections)) :
      recordOfSegments(Reordered(p)) = result

\* parties, a missing element and a section 8 without a written score
\* were read in this order; with the section 8 first the record is the same
C24_Witness ==
  /\ Returned /\ DistinctlyTagged /\ Len(sections) = 3
  /\ Len(input) = 3 /\ input[3].kind = "score" /\ input[3].form = "absent"
  /\ result.parties # <<>> /\ result.missingClauses # <<>>
  /\ recordOfSegments(<<sections[3], sections[1], sections[2]>>) = result

\* the lines of t that begin with a digit
NumberedLines(t) ==
  {i \in 1..Len(t) : IsDigit(t[i]) /\ (i = 1 \/ t[i - 1] = NL)}

\* every part is one section of the template: it begins with one of the
\* headings '1.' to '9.', each part with another, and no other line of it
\* begins with a number
TemplateSections ==
  /\ input # <<>>
  /\ \A i \in 1..Len(input) :
       /\ FieldsOpenTo(RenderPart(input[i])) # {}
       /\ NumberedLines(RenderPart(input[i])) = {1}
  /\ \A i, j \in 1..Len(input) :
       i # j => RenderPart(input[i])[1] # RenderPart(input[j])[1]

\* C25: the body of a template section changes no field of another
\* section and is not cut short: every field is what the extractor of its
\* section, handed the whole section, makes of it.
C25_BodiesLeaveOtherFieldsAlone ==
  (Returned /\ TemplateSections) =>
    \A i \in 1..Len(input) :
      LET whole == sectionStep(initialLocals, Render(<<input[i]>>))
      IN  \A field \in FieldsOpenTo(RenderPart(input[i])) :
            result[field] = whole[field]

\* the segments one after another
RECURSIVE Concatenated(_)
Concatenated(segments) ==
  IF segments = <<>> THEN <<>>
  ELSE segments[1] \o Concatenated(Tail(segments))

\* C26: the segments, concatenated in order, are the text, and no segment
\* is the empty string unless the text is.
C26_SegmentsGiveBackTheText ==
  Len(sections) > 0 =>
    /\ Concatenated(sections) = text
    /\ \A i \in 1..Len(sections) : sections[i] = <<>> => text = <<>>

\* a text that was cut into four segments, one of them a single digit
C26_Witness ==
  /\ Len(sections) >= 4
  /\ \E i \in 1..Len(sections) : Len(sections[i]) = 1
  /\ Concatenated(sections) = text

\* the response is one section 6 whose labels and bullets stand on lines of
\* their own, with the markers 'Risk Factors:' and 'Concerning Elements:'
OneRiskSectionOnLines ==
  /\ Returned /\ Len(input) = 1 /\ input[1].kind = "risk"
  /\ input[1].style # "inline"
  /\ input[1].factors >= 0 /\ input[1].points >= 0

\* C27: no bullet under 'Concerning Elements' is among the riskFactors,
\* whose number is the number of bullets between the marker 'Risk Factors'
\* and the marker 'Concerning Elements'.
C27_FactorsEndAtConcerningElements ==
  OneRiskSectionOnLines =>
    /\ Range(result.riskFactors) \cap Range(result.concerningPoints) = {}
    /\ Len(result.riskFactors) = input[1].factors

\* C28: the documentType returned is never the empty string; when the
\* clean-up leaves nothing of the text captured after the label, it is the
\* default 'Document'.
C28_DocumentTypeNeverEmpty ==
  Returned =>
    /\ result.documentType # <<>>
    /\ \A i \in 1..Len(sections) :
         (/\ startsWith(sections[i], <<"1", ".">>)
          /\ Matched(typeMatch(sections[i]))
          /\ cleanDocumentType(typeMatch(sections[i])[1]) = <<>>
          /\ Len(sections) = 1) => result.documentType = Document

\* C29: a run of the upload flow that succeeds raises the stored counter by
\* exactly 1, and a run whose analysis fails leaves it as it was.
C29_CounterRaisedOncePerSuccess ==
  \A u \in DOMAIN uploads :
    /\ uploads[u].pc = "done" => uploads[u].raised = 1
    /\ uploads[u].pc = "failed" => uploads[u].raised = 0

\* C30: for a user of the free plan, never more than maxContracts analyses
\* are started, however the uploads overlap.
C30_StartedWithinLimit == analysesStarted <= maxContracts
====
